---- MODULE Spec2Model ----
(***************************************************************************)
(* Model of core-banking/currency_converter.py: CurrencyConverter and its  *)
(* _make_api_request, with ExchangeRateAPIError of exceptions.py.          *)
(*                                                                         *)
(* Text is a sequence whose elements are single characters ("k", "-") or   *)
(* literal fragments of the source ("https://v6.exchangerate-api.com/v6/") *)
(* standing for themselves.  API keys are made of single characters only,  *)
(* so a key is a substring of a text exactly when it occurs in the parts   *)
(* that are not literals of the program.                                   *)
(***************************************************************************)
EXTENDS Integers, Sequences, FiniteSets, TLC

\* ------------------------------------------------------------------ bounds
MaxKeyLen == 2
MaxTypeLen == 2

\* ------------------------------------------------------------ python str
Lowers == <<"a","b","c","d","e","f","g","h","i","j","k","l","m",
            "n","o","p","q","r","s","t","u","v","w","x","y","z">>
Uppers == <<"A","B","C","D","E","F","G","H","I","J","K","L","M",
            "N","O","P","Q","R","S","T","U","V","W","X","Y","Z">>

IsLower(c) == \E i \in DOMAIN Lowers : Lowers[i] = c
IsUpper(c) == \E i \in DOMAIN Uppers : Uppers[i] = c
IsCased(c) == IsLower(c) \/ IsUpper(c)
ToUpper(c) == IF IsLower(c) THEN Uppers[CHOOSE i \in DOMAIN Lowers : Lowers[i] = c] ELSE c
ToLower(c) == IF IsUpper(c) THEN Lowers[CHOOSE i \in DOMAIN Uppers : Uppers[i] = c] ELSE c

\* str.title(): a cased character is upper-cased when the character before it
\* is not cased, and lower-cased when it is.
RECURSIVE TitleFrom(_, _)
TitleFrom(s, prevCased) ==
    IF s = <<>> THEN <<>>
    ELSE <<IF prevCased THEN ToLower(Head(s)) ELSE ToUpper(Head(s))>>
         \o TitleFrom(Tail(s), IsCased(Head(s)))

Title(s) == TitleFrom(s, FALSE)

\* str.replace(old, new): every non-overlapping occurrence, left to right; an
\* empty old matches before every character and at the end.
RECURSIVE ReplaceFrom(_, _, _)
ReplaceFrom(s, old, new) ==
    IF old = <<>>
    THEN IF s = <<>> THEN new ELSE new \o <<Head(s)>> \o ReplaceFrom(Tail(s), old, new)
    ELSE IF Len(s) < Len(old) THEN s
    ELSE IF SubSeq(s, 1, Len(old)) = old
         THEN new \o ReplaceFrom(SubSeq(s, Len(old) + 1, Len(s)), old, new)
         ELSE <<Head(s)>> \o ReplaceFrom(Tail(s), old, new)

Replace(s, old, new) == ReplaceFrom(s, old, new)

\* old in s
Contains(s, old) ==
    \E i \in 1..(Len(s) - Len(old) + 1) : SubSeq(s, i, i + Len(old) - 1) = old

\* ------------------------------------------------------- python values
\* An optional value (None or a value) is a sequence of length 0 or 1.
None == <<>>
Some(x) == <<x>>

\* A decoded JSON value: a tag and the text, or for an object the mapping.
PyStr(s) == [t |-> "str", v |-> s]
PyNone == [t |-> "None", v |-> <<>>]
PyInt7 == [t |-> "int", v |-> <<"7">>]
PyList == [t |-> "list", v |-> <<>>]
PyDict(f) == [t |-> "dict", v |-> f]

IsStr(x) == x.t = "str"
IsDict(x) == x.t = "dict"

\* str(x) as an f-string renders it
Format(x) == IF x.t = "None" THEN <<"None">> ELSE x.v

\* x == 'literal' for a decoded value x
EqStr(x, s) == IsStr(x) /\ x.v = s

\* dict.get(key, default)
Get(d, key, default) == IF key \in DOMAIN d THEN d[key] ELSE default

EmptyDict == [k \in {} |-> PyNone]

\* ------------------------------------------------------------ constants
BASE_URL == <<"https://v6.exchangerate-api.com/v6/">>
REDACTED == <<"***REDACTED_API_KEY***">>

UnsupportedCode == <<"u","n","s","u","p","p","o","r","t","e","d","-","c","o","d","e">>
InvalidKey == <<"i","n","v","a","l","i","d","-","k","e","y">>
QuotaReached == <<"q","u","o","t","a","-","r","e","a","c","h","e","d">>
UnknownApiError == <<"u","n","k","n","o","w","n","-","a","p","i","-","e","r","r","o","r">>
SomeNewCode == <<"s","o","m","e","-","n","e","w","-","c","o","d","e">>

\* the error_messages table of _make_api_request
error_messages ==
    (UnsupportedCode :> <<"Currency code not supported by API. Please check the currency code.">>)
    @@ (InvalidKey :> <<"Invalid API key provided. Please check your API key.">>)
    @@ (QuotaReached :> <<"API quota reached. Please try again later or upgrade your plan.">>)

\* ------------------------------------------------- inputs and environment
KeyChars == {"k", "z"}
TypeChars == {"k", "N", "-", "2"}

SeqsUpTo(S, n) == UNION {[1..m -> S] : m \in 0..n}

\* the api_key a client is constructed with: a non-empty string
Keys == SeqsUpTo(KeyChars, MaxKeyLen) \ {<<>>}

\* the endpoint argument: the harness's "/latest/USD", and a path naming "k"
Endpoints == {<<"/latest/USD">>, <<"/latest/", "k">>}

\* status codes a server answers with
Statuses == {200, 204, 304, 404, 500}

ReasonOf(status) ==
    CASE status = 200 -> "OK"
      [] status = 204 -> "No Content"
      [] status = 304 -> "Not Modified"
      [] status = 404 -> "Not Found"
      [] OTHER -> "Internal Server Error"

\* error-type strings an error body carries
ErrorTypes ==
    {UnsupportedCode, InvalidKey, QuotaReached, SomeNewCode}
    \cup SeqsUpTo(TypeChars, MaxTypeLen)

\* the optional "request" field of a body: absent, or echoing the URL asked for
WithEcho(f, url) == {f, f @@ ("request" :> PyStr(url))}

SuccessBodies(url) ==
    UNION {WithEcho(f, url) : f \in
        { ("result" :> PyStr(<<"success">>)),
          ("result" :> PyStr(<<"success">>)) @@ ("base_code" :> PyStr(<<"USD">>)),
          ("result" :> PyStr(<<"success">>)) @@ ("error-type" :> PyStr(InvalidKey)) }}

ErrorBodies(url) ==
    UNION {WithEcho(f, url) : f \in
        { ("result" :> PyStr(<<"error">>)) }
        \cup { ("result" :> PyStr(<<"error">>)) @@ ("error-type" :> x) :
                 x \in {PyStr(t) : t \in ErrorTypes} \cup {PyNone, PyInt7} }}

OtherBodies(url, key) ==
    UNION {WithEcho(f, url) : f \in
        { EmptyDict }
        \cup { ("result" :> x) :
                 x \in {PyStr(<<"pending">>), PyStr(key), PyNone, PyInt7} }}

\* what response.json() decodes to when the body is JSON
JsonObjects(url, key) ==
    {PyDict(f) : f \in SuccessBodies(url) \cup ErrorBodies(url) \cup OtherBodies(url, key)}

JsonValues(url, key) == JsonObjects(url, key) \cup {PyList, PyNone, PyStr(<<"ok">>)}

\* a response body: JSON text with its decoded value, or text that is not JSON
Bodies(url, key) ==
    {[valid |-> TRUE, json |-> j] : j \in JsonValues(url, key)}
    \cup {[valid |-> FALSE, json |-> PyNone]}

Responses(url, key) ==
    {[status_code |-> st, reason |-> ReasonOf(st), url |-> url, body |-> b] :
        st \in Statuses, b \in Bodies(url, key)}

\* bool(response): Response.__bool__ is Response.ok, false for 4xx and 5xx
IsErrorStatus(status) == 400 <= status /\ status < 600
Truthy(resp) == resp # None /\ ~IsErrorStatus(resp[1].status_code)

\* an exception of requests: its classes (with the bases), its text str(e),
\* whether it has a response attribute, and that attribute
Exc(classes, text, hasattr, resp) ==
    [classes |-> classes, text |-> text, has_response |-> hasattr, response |-> resp]

isinstance(e, class) == class \in e.classes

ExcTexts(url) == {<<"Connection aborted.">>, <<"Max retries exceeded with url: ">> \o url}

\* what requests.get raises when no usable response comes back
TransportClasses ==
    { {"RequestException", "ConnectionError"},
      {"RequestException", "ConnectionError", "Timeout"},
      {"RequestException", "Timeout"},
      {"RequestException"},
      {"RequestException", "ValueError"} }

TransportExceptions(url) ==
    {Exc(c, t, TRUE, None) : c \in TransportClasses, t \in ExcTexts(url)}
    \cup {Exc({"RequestException"}, <<"Exceeded 30 redirects.">>, TRUE,
              Some([status_code |-> 302, reason |-> "Found", url |-> url,
                    body |-> [valid |-> FALSE, json |-> PyNone]]))}

\* response.raise_for_status() on a 4xx or 5xx response
HTTPErrorOf(resp) ==
    Exc({"RequestException", "HTTPError"},
        <<ToString(resp.status_code), " Error: ", resp.reason, " for url: ">> \o resp.url,
        TRUE, Some(resp))

\* response.json() on a body that is not JSON: requests' JSONDecodeError, or
\* the plain ValueError of earlier versions, which has no response attribute
JSONDecodeErrors ==
    { Exc({"RequestException", "ValueError"}, <<"Expecting value: line 1 column 1 (char 0)">>,
          TRUE, None),
      Exc({"ValueError"}, <<"No JSON object could be decoded">>, FALSE, None) }

\* -------------------------------------------------------- exceptions.py
ExchangeRateAPIError(message, api_error_type, http_status_code, details) ==
    [message |-> message, api_error_type |-> api_error_type,
     http_status_code |-> http_status_code, details |-> details]

\* ------------------------------------------- how a call of the method ends
\* a return that hands back only the body's result field
ReturnedResultOnly(value) ==
    [kind |-> "return", error |-> None, escaped |-> None,
     value |-> Some(PyDict([k \in DOMAIN value.v \cap {"result"} |-> value.v[k]]))]

Returned(value) == [kind |-> "return", value |-> Some(value), error |-> None, escaped |-> None]
Raised(error) == [kind |-> "raise", value |-> None, error |-> Some(error), escaped |-> None]
Escaped(type) == [kind |-> "escape", value |-> None, error |-> None, escaped |-> Some(type)]

\* ------------------------------------------------ the except block, l.28-57
\* e.response.status_code if hasattr(e, 'response') and e.response else None
StatusCodeOf(e) ==
    IF e.has_response /\ Truthy(e.response) THEN Some(e.response[1].status_code) ELSE None

FormatStatus(status_code) ==
    IF status_code = None THEN "None" ELSE ToString(status_code[1])

\* the classification with the connection-error test ahead of the timeout test
ErrorTypeConnectionFirst(e) ==
    IF isinstance(e, "HTTPError") THEN <<"http-error">>
    ELSE IF isinstance(e, "ConnectionError") THEN <<"network-error">>
    ELSE IF isinstance(e, "Timeout") THEN <<"timeout">>
    ELSE IF isinstance(e, "ValueError") THEN <<"json-decode-error">>
    ELSE <<"unknown-request-error">>

ErrorTypeOf(e) ==
    IF isinstance(e, "HTTPError") THEN <<"http-error">>
    ELSE IF isinstance(e, "Timeout") THEN <<"timeout">>
    ELSE IF isinstance(e, "ConnectionError") THEN <<"network-error">>
    ELSE IF isinstance(e, "ValueError") THEN <<"json-decode-error">>
    ELSE <<"unknown-request-error">>

UserMessageOf(e) ==
    IF isinstance(e, "HTTPError")
    THEN IF StatusCodeOf(e) = Some(404)
         THEN <<"The requested currency or API endpoint was not found.">>
         ELSE <<"API request failed with HTTP Error ", FormatStatus(StatusCodeOf(e)), ": ",
                e.response[1].reason, ".">>
    ELSE IF isinstance(e, "Timeout")
    THEN <<"The request to the currency API timed out.">>
    ELSE IF isinstance(e, "ConnectionError")
    THEN <<"A network connection error occurred to the currency API.">>
    ELSE IF isinstance(e, "ValueError")
    THEN <<"Failed to decode the JSON response from the API.">>
    ELSE <<"An unexpected error occurred: ">> \o e.text

\* the details without the redaction
RawUrlDetails(url, key) ==
    PyDict("requested_url_redacted" :> PyStr(url))

RedactedDetails(url, key) ==
    PyDict("requested_url_redacted" :> PyStr(Replace(url, key, REDACTED)))

RequestError(e, url, key) ==
    ExchangeRateAPIError(UserMessageOf(e), ErrorTypeOf(e), StatusCodeOf(e),
                         RedactedDetails(url, key))

\* ------------------------------------------- after the try block, l.61-86
UnhandledMessage(api_error_type) ==
    <<"Currency API returned an unhandled error: ">>
    \o Title(Replace(api_error_type, <<"-">>, <<" ">>)) \o <<".">>

ApiError(d, status) ==
    LET api_error_type == Get(d, "error-type", PyStr(UnknownApiError))
    IN  IF ~IsStr(api_error_type)
        THEN Escaped("AttributeError")
        ELSE Raised(ExchangeRateAPIError(
                 Get(error_messages, api_error_type.v, UnhandledMessage(api_error_type.v)),
                 api_error_type.v, Some(status), PyDict(d)))

\* the unexpected-result error without the response's status
UnexpectedFormatNoStatus(d, status) ==
    Raised(ExchangeRateAPIError(
        <<"Unexpected 'result' value in API response: ">>
            \o Format(Get(d, "result", PyNone)) \o <<".">>,
        <<"unexpected-response-format">>, None, PyDict(d)))

UnexpectedFormat(d, status) ==
    Raised(ExchangeRateAPIError(
        <<"Unexpected 'result' value in API response: ">>
            \o Format(Get(d, "result", PyNone)) \o <<".">>,
        <<"unexpected-response-format">>, Some(status), PyDict(d)))

Interpret(json, status) ==
    IF ~IsDict(json) THEN Escaped("AttributeError")
    ELSE IF EqStr(Get(json.v, "result", PyNone), <<"success">>) THEN Returned(json)
    ELSE IF EqStr(Get(json.v, "result", PyNone), <<"error">>) THEN ApiError(json.v, status)
    ELSE UnexpectedFormat(json.v, status)

\* ------------------------------------------------------------------ state
VARIABLES
    api_key,    \* self.api_key
    pc,         \* where the current call of _make_api_request stands
    full_url,   \* the local full_url
    response,   \* the local response, once requests.get has returned
    exc,        \* the exception e the except block has caught
    data,       \* the local data, once response.json() has returned
    outcome,    \* how the call ended: returned, raised, or let an exception out
    gets        \* the calls of requests.get this call has made

vars == <<api_key, pc, full_url, response, exc, data, outcome, gets>>

\* CurrencyConverter(api_key)
Init ==
    /\ api_key \in Keys
    /\ pc = "idle"
    /\ full_url = <<>>
    /\ response = None
    /\ exc = None
    /\ data = None
    /\ outcome = None
    /\ gets = 0

\* _make_api_request(endpoint) is entered: l.19
Call(endpoint) ==
    /\ pc = "idle"
    /\ full_url' = BASE_URL \o api_key \o endpoint
    /\ pc' = "get"
    /\ response' = None
    /\ exc' = None
    /\ data' = None
    /\ outcome' = None
    /\ gets' = 0
    /\ UNCHANGED api_key

\* requests.get(full_url, timeout=10) raises: l.22 to l.28
GetRaises ==
    /\ pc = "get"
    /\ \E e \in TransportExceptions(full_url) : exc' = Some(e)
    /\ gets' = gets + 1
    /\ pc' = "except"
    /\ UNCHANGED <<api_key, full_url, response, data, outcome>>

\* requests.get(full_url, timeout=10) returns a response: l.22
GetReturns ==
    /\ pc = "get"
    /\ \E r \in Responses(full_url, api_key) : response' = Some(r)
    /\ gets' = gets + 1
    /\ pc' = "raise_for_status"
    /\ UNCHANGED <<api_key, full_url, exc, data, outcome>>

\* response.raise_for_status(): l.24
RaiseForStatus ==
    /\ pc = "raise_for_status"
    /\ IF IsErrorStatus(response[1].status_code)
       THEN exc' = Some(HTTPErrorOf(response[1])) /\ pc' = "except"
       ELSE exc' = exc /\ pc' = "json"
    /\ UNCHANGED <<api_key, full_url, response, data, outcome, gets>>

\* data = response.json(), the body being JSON: l.26
JsonDecodes ==
    /\ pc = "json"
    /\ response[1].body.valid
    /\ data' = Some(response[1].body.json)
    /\ pc' = "interpret"
    /\ UNCHANGED <<api_key, full_url, response, exc, outcome, gets>>

\* data = response.json(), the body not being JSON: l.26 to l.28
JsonRaises ==
    /\ pc = "json"
    /\ ~response[1].body.valid
    /\ \E e \in JSONDecodeErrors : exc' = Some(e)
    /\ pc' = "except"
    /\ UNCHANGED <<api_key, full_url, response, data, outcome, gets>>

\* the except block asking again once after a timeout
ExceptRetrying ==
    /\ pc = "except"
    /\ IF isinstance(exc[1], "Timeout") /\ gets < 2
       THEN pc' = "get" /\ exc' = None /\ outcome' = outcome
       ELSE /\ outcome' = Some(Raised(RequestError(exc[1], full_url, api_key)))
            /\ pc' = "done" /\ exc' = exc
    /\ UNCHANGED <<api_key, full_url, response, data, gets>>

\* the except block: l.28-57
Except ==
    /\ pc = "except"
    /\ outcome' = Some(Raised(RequestError(exc[1], full_url, api_key)))
    /\ pc' = "done"
    /\ UNCHANGED <<api_key, full_url, response, exc, data, gets>>

\* the code after the try block: l.61-86
InterpretData ==
    /\ pc = "interpret"
    /\ outcome' = Some(Interpret(data[1], response[1].status_code))
    /\ pc' = "done"
    /\ UNCHANGED <<api_key, full_url, response, exc, data, gets>>

\* the caller has the result or the exception, and may call again
Finish ==
    /\ pc = "done"
    /\ pc' = "idle"
    /\ UNCHANGED <<api_key, full_url, response, exc, data, outcome, gets>>

Next ==
    \/ \E endpoint \in Endpoints : Call(endpoint)
    \/ GetRaises
    \/ GetReturns
    \/ RaiseForStatus
    \/ JsonDecodes
    \/ JsonRaises
    \/ Except
    \/ InterpretData
    \/ Finish

Spec == Init /\ [][Next]_vars

\* ============================================================== claims
Done == pc = "done"
Out == outcome[1]
RaisedError == Done /\ Out.kind = "raise"
Err == Out.error[1]
Resp == response[1]
Is2xx(status) == 200 <= status /\ status < 300

\* a response came back with a 2xx status and a body that is a JSON object
GotObject ==
    /\ Done /\ response # None
    /\ Is2xx(Resp.status_code) /\ Resp.body.valid /\ IsDict(Resp.body.json)

ResultField == Get(Resp.body.json.v, "result", PyNone)

\* the api key occurs in no text held by a dict
KeyFree(d) == \A k \in DOMAIN d.v : IsStr(d.v[k]) => ~Contains(d.v[k].v, api_key)

\* C1: no error raised by _make_api_request has the api key as a substring of
\* its message or of a value of its details, on any branch.
C1_NoKeyInError ==
    RaisedError => ~Contains(Err.message, api_key) /\ KeyFree(Err.details)

\* C2: a call ends by returning the payload or by raising ExchangeRateAPIError;
\* no exception of another type leaves it.
C2_OnlyApiErrorEscapes ==
    Done => Out.kind \in {"return", "raise"}

\* C3: a response with a 4xx or 5xx status fails with category http-error and
\* httpStatusCode the response's status; a 404 has the "not found" message.
C3_HttpErrorStatus ==
    (Done /\ response # None /\ IsErrorStatus(Resp.status_code)) =>
        /\ Out.kind = "raise"
        /\ Err.api_error_type = <<"http-error">>
        /\ Err.http_status_code = Some(Resp.status_code)
        /\ (Resp.status_code = 404 =>
              Err.message = <<"The requested currency or API endpoint was not found.">>)

\* C4: a 2xx object body with result "error" fails with category the body's
\* error-type, httpStatusCode the response's status, and the message of the
\* table, or the unhandled-error message with the title-cased error-type.
C4_ApiErrorMapping ==
    (GotObject /\ EqStr(ResultField, <<"error">>)
       /\ "error-type" \in DOMAIN Resp.body.json.v) =>
        LET type == Resp.body.json.v["error-type"]
        IN  /\ Out.kind = "raise"
            /\ Err.api_error_type = type.v
            /\ Err.http_status_code = Some(Resp.status_code)
            /\ (type.v = UnsupportedCode => Err.message =
                  <<"Currency code not supported by API. Please check the currency code.">>)
            /\ (type.v = InvalidKey => Err.message =
                  <<"Invalid API key provided. Please check your API key.">>)
            /\ (type.v = QuotaReached => Err.message =
                  <<"API quota reached. Please try again later or upgrade your plan.">>)
            /\ (type.v \notin {UnsupportedCode, InvalidKey, QuotaReached} => Err.message =
                  <<"Currency API returned an unhandled error: ">>
                  \o TitleFrom(ReplaceFrom(type.v, <<"-">>, <<" ">>), FALSE) \o <<".">>)
            /\ (type.v = SomeNewCode => Err.message =
                  <<"Currency API returned an unhandled error: ",
                    "S","o","m","e"," ","N","e","w"," ","C","o","d","e",".">>)

\* C4, for the bodies whose error-type is a string: the same mapping holds.
C4_StringErrorTypes ==
    (GotObject /\ EqStr(ResultField, <<"error">>)
       /\ "error-type" \in DOMAIN Resp.body.json.v
       /\ IsStr(Resp.body.json.v["error-type"])) => C4_ApiErrorMapping

\* C5: a 2xx object body with result "success" is returned as decoded, with
\* no field added, removed or changed, and nothing is raised.
C5_SuccessReturnsPayload ==
    (GotObject /\ EqStr(ResultField, <<"success">>)) =>
        /\ Out.kind = "return"
        /\ Out.value = Some(Resp.body.json)
        /\ Out.error = None /\ Out.escaped = None

C5_Witness ==
    /\ GotObject /\ Out.kind = "return"
    /\ "base_code" \in DOMAIN Out.value[1].v
    /\ "request" \in DOMAIN Out.value[1].v

\* C6: a 2xx response whose body is not JSON fails with category
\* json-decode-error and httpStatusCode the response's status.
C6_JsonDecodeStatus ==
    (Done /\ response # None /\ Is2xx(Resp.status_code) /\ ~Resp.body.valid) =>
        /\ Out.kind = "raise"
        /\ Err.api_error_type = <<"json-decode-error">>
        /\ Err.http_status_code = Some(Resp.status_code)

\* the transport failed and no response was received
NoResponseFailure == Done /\ exc # None /\ response = None /\ exc[1].response = None

\* C7: a transport failure without a response fails with no httpStatusCode,
\* with category timeout for a timeout (a connect timeout, which is also a
\* connection error, included) and network-error for any other connection error.
C7_TransportCategories ==
    NoResponseFailure =>
        /\ Out.kind = "raise"
        /\ Err.http_status_code = None
        /\ ("Timeout" \in exc[1].classes => Err.api_error_type = <<"timeout">>)
        /\ ("ConnectionError" \in exc[1].classes /\ "Timeout" \notin exc[1].classes
              => Err.api_error_type = <<"network-error">>)

C7_Witness ==
    /\ NoResponseFailure
    /\ {"ConnectionError", "Timeout"} \subseteq exc[1].classes
    /\ Out.kind = "raise" /\ Err.api_error_type = <<"timeout">>

\* the details the spec asks for: the URL with the key replaced by the marker
RedactedUrlDetails ==
    PyDict("requested_url_redacted" :> PyStr(ReplaceFrom(full_url, api_key, REDACTED)))

\* C8: on every error path, API-reported errors and unexpected-response-format
\* included, details holds the request URL with the key replaced by the marker.
C8_DetailsOnEveryPath ==
    RaisedError => Err.details = RedactedUrlDetails

\* C8 as amended: an error raised by the except block holds the request URL
\* with the key replaced by the marker; an error raised after the try block
\* (an API-reported error, an unexpected result) holds the decoded body.
C8_DetailsByPath ==
    RaisedError =>
        /\ (exc # None => Err.details = RedactedUrlDetails)
        /\ (exc = None => Err.details = Resp.body.json)

C8_Witness ==
    /\ RaisedError /\ exc # None
    /\ Len(api_key) = MaxKeyLen
    /\ Err.details.v["requested_url_redacted"].v = BASE_URL \o REDACTED \o <<"/latest/USD">>

\* C9: a 2xx object body whose result is neither "success" nor "error" fails
\* with category unexpected-response-format and httpStatusCode the status.
C9_UnexpectedResult ==
    (GotObject /\ ~EqStr(ResultField, <<"success">>) /\ ~EqStr(ResultField, <<"error">>)) =>
        /\ Out.kind = "raise"
        /\ Err.api_error_type = <<"unexpected-response-format">>
        /\ Err.http_status_code = Some(Resp.status_code)

C9_Witness ==
    /\ GotObject /\ EqStr(ResultField, <<"pending">>)
    /\ Resp.status_code = 204
    /\ Out.kind = "raise" /\ Err.api_error_type = <<"unexpected-response-format">>

====
